---- MODULE Spec2Model ----
(***************************************************************************)
(* Model of dmpy/distributedmake.py: the rule graph builder (DMBuilder),   *)
(* the makefile text it writes, and the orchestrator (DistributedMake)     *)
(* that writes the graph to a temporary file and runs make on it.          *)
(*                                                                         *)
(* Python strings are modelled as sequences of one-character strings, so   *)
(* that formatting, joining and re-parsing are computed character by       *)
(* character.                                                              *)
(***************************************************************************)
EXTENDS Integers, Sequences, FiniteSets, TLC

VARIABLES rules, _targets, scheduler, cfg, pc, makefile_fp, buffer, flushed,
          disk, child, makecmd, last, given, passes, nwrites

vars == <<rules, _targets, scheduler, cfg, pc, makefile_fp, buffer, flushed,
          disk, child, makecmd, last, given, passes, nwrites>>

(***************************************************************************)
(* Bounds of the model.                                                    *)
(***************************************************************************)
\* largest number of rules a graph holds
MaxRules == 2
\* largest number of write_to_filehandle calls (direct or through execute)
MaxWrites == 2

(***************************************************************************)
(* Strings.                                                                *)
(***************************************************************************)
SP == " "
NL == "\n"
TAB == "\t"
SLASH == "/"

RECURSIVE Join(_, _)
\* sep.join(parts)
Join(parts, sep) ==
    IF parts = <<>> THEN <<>>
    ELSE IF Len(parts) = 1 THEN parts[1]
    ELSE parts[1] \o sep \o Join(Tail(parts), sep)

RECURSIVE Cat(_)
\* the concatenation of a sequence of strings
Cat(parts) == IF parts = <<>> THEN <<>> ELSE parts[1] \o Cat(Tail(parts))

RECURSIVE SplitOn(_, _)
\* s.split(c) for a one-character separator c: always at least one field
SplitOn(s, c) ==
    IF \A i \in 1..Len(s) : s[i] # c THEN <<s>>
    ELSE LET k == CHOOSE i \in 1..Len(s) : s[i] = c /\ \A j \in 1..(i - 1) : s[j] # c
         IN  <<SubSeq(s, 1, k - 1)>> \o SplitOn(SubSeq(s, k + 1, Len(s)), c)

StartsWith(s, p) == Len(s) >= Len(p) /\ SubSeq(s, 1, Len(p)) = p

Digit(d) == <<"0", "1", "2", "3", "4", "5", "6", "7", "8", "9">>[d + 1]

RECURSIVE IntToStr(_)
\* str(n) for a natural number n
IntToStr(n) == IF n < 10 THEN <<Digit(n)>> ELSE IntToStr(n \div 10) \o <<Digit(n % 10)>>

(***************************************************************************)
(* os.path, POSIX flavour, as used at line 46.                             *)
(***************************************************************************)
\* the working directory of the process
Cwd == <<"/", "w">>

RECURSIVE RStripSlash(_)
RStripSlash(s) ==
    IF s # <<>> /\ s[Len(s)] = SLASH THEN RStripSlash(SubSeq(s, 1, Len(s) - 1)) ELSE s

\* os.path.dirname(p)
dirname(p) ==
    LET idx  == {i \in 1..Len(p) : p[i] = SLASH}
        i    == IF idx = {} THEN 0 ELSE CHOOSE k \in idx : \A j \in idx : j <= k
        head == SubSeq(p, 1, i)
    IN  IF head # <<>> /\ (\E k \in 1..Len(head) : head[k] # SLASH)
        THEN RStripSlash(head) ELSE head

RECURSIVE NormComps(_, _, _)
\* the component loop of os.path.normpath
NormComps(comps, acc, rooted) ==
    IF comps = <<>> THEN acc
    ELSE LET c == Head(comps)
         IN  IF c = <<>> \/ c = <<".">> THEN NormComps(Tail(comps), acc, rooted)
             ELSE IF c # <<".", ".">> \/ (~rooted /\ acc = <<>>)
                     \/ (acc # <<>> /\ acc[Len(acc)] = <<".", ".">>)
                  THEN NormComps(Tail(comps), Append(acc, c), rooted)
                  ELSE IF acc # <<>>
                       THEN NormComps(Tail(comps), SubSeq(acc, 1, Len(acc) - 1), rooted)
                       ELSE NormComps(Tail(comps), acc, rooted)

\* os.path.normpath(p)
normpath(p) ==
    LET rooted == StartsWith(p, <<SLASH>>)
        slashes == IF ~rooted THEN <<>>
                   ELSE IF StartsWith(p, <<SLASH, SLASH>>) /\ ~StartsWith(p, <<SLASH, SLASH, SLASH>>)
                        THEN <<SLASH, SLASH>> ELSE <<SLASH>>
        res == slashes \o Join(NormComps(SplitOn(p, SLASH), <<>>, rooted), <<SLASH>>)
    IN  IF res = <<>> THEN <<".">> ELSE res

\* os.path.abspath(p)
abspath(p) ==
    IF StartsWith(p, <<SLASH>>) THEN normpath(p)
    ELSE normpath(Cwd \o <<SLASH>> \o p)

(***************************************************************************)
(* The text constants of the source.                                       *)
(***************************************************************************)
\* "SHELL := /bin/bash\n"
SHELL_LINE == <<"S", "H", "E", "L", "L", " ", ":", "=", " ", "/", "b", "i", "n", "/", "b", "a", "s", "h", "\n">>
\* "@test -d "
GUARD_TEST == <<"@", "t", "e", "s", "t", " ", "-", "d", " ">>
\* " || mkdir -p "
GUARD_MKDIR == <<" ", "|", "|", " ", "m", "k", "d", "i", "r", " ", "-", "p", " ">>
\* 'srun '
SRUN == <<"s", "r", "u", "n", " ">>
\* "all: "
ALL_HEAD == <<"a", "l", "l", ":", " ">>
\* ".DELETE_ON_ERROR:\n"
DELETE_ON_ERROR == <<".", "D", "E", "L", "E", "T", "E", "_", "O", "N", "_", "E", "R", "R", "O", "R", ":", "\n">>
\* ": "
COLON_SP == <<":", " ">>

(***************************************************************************)
(* SchedulingEngine and DMRule.                                            *)
(***************************************************************************)
SchedulingEngine == {"none", "slurm"}

\* DMRule(target, deps, cmds): a record of the three fields the builder reads
DMRule(target, deps, cmds) == [target |-> target, deps |-> deps, recipe |-> cmds]

(***************************************************************************)
(* DMBuilder.add                                                           *)
(***************************************************************************)
\* add with the rule appended before the duplicate check raises
DMBuilder_add_AppendsThenRaises(rs, tg, target, deps, cmds) ==
    [raised |-> target \in tg,
     rules |-> Append(rs, DMRule(target, deps, cmds)),
     targets |-> tg \cup {target}]

\* add without the duplicate check
DMBuilder_add_NoCheck(rs, tg, target, deps, cmds) ==
    [raised |-> FALSE,
     rules |-> Append(rs, DMRule(target, deps, cmds)),
     targets |-> tg \cup {target}]

\* the builder after add(target, deps, cmds), and whether the call raised
DMBuilder_add(rs, tg, target, deps, cmds) ==
    IF target \in tg
    THEN [raised |-> TRUE, rules |-> rs, targets |-> tg]
    ELSE [raised |-> FALSE,
          rules |-> Append(rs, DMRule(target, deps, cmds)),
          targets |-> tg \cup {target}]

(***************************************************************************)
(* DMBuilder.write_to_filehandle                                           *)
(***************************************************************************)
\* lines 49-52
cmd_prefix(sched) == IF sched = "slurm" THEN SRUN ELSE <<>>

\* "@test -d {0} || mkdir -p {0}".format(dirname)
GuardCommand(dir) == GUARD_TEST \o dir \o GUARD_MKDIR \o dir

\* line 53: [cmd_prefix + cmd for cmd in rule.recipe]
PrefixRecipe(recipe, prefix) == [i \in 1..Len(recipe) |-> prefix \o recipe[i]]

\* the loop body with the guard command appended instead of inserted in front
SerializeRule_GuardLast(rule, sched) ==
    [rule EXCEPT !.recipe =
        PrefixRecipe(rule.recipe, cmd_prefix(sched))
            \o <<GuardCommand(abspath(dirname(rule.target)))>>]

\* lines 46, 49-54: the rule as the loop body leaves it
SerializeRule(rule, sched) ==
    [rule EXCEPT !.recipe =
        <<GuardCommand(abspath(dirname(rule.target)))>>
            \o PrefixRecipe(rule.recipe, cmd_prefix(sched))]

\* line 48: "{}: {}\n".format(rule.target, ' '.join(rule.deps))
HeaderLine(rule) == rule.target \o COLON_SP \o Join(rule.deps, <<SP>>) \o <<NL>>

\* lines 55-56: "\t{}\n".format(cmd) for each command of the mutated recipe
RecipeLines(recipe) == Cat([i \in 1..Len(recipe) |-> <<TAB>> \o recipe[i] \o <<NL>>])

\* what one iteration of the loop writes for a rule
RuleBlock(rule, sched) == HeaderLine(rule) \o RecipeLines(SerializeRule(rule, sched).recipe)

\* the all line with the targets joined without a separator
AllLine_NoSeparator(rs) ==
    ALL_HEAD \o Join([i \in 1..Len(rs) |-> rs[i].target], <<>>) \o <<NL>>

\* line 58: "all: {}\n".format(" ".join([r.target for r in self.rules]))
AllLine(rs) == ALL_HEAD \o Join([i \in 1..Len(rs) |-> rs[i].target], <<SP>>) \o <<NL>>

\* the loop taking each rule off the list as it writes it
RulesAfter_Consumes(rs, sched, k) ==
    [i \in 1..(Len(rs) - k) |-> rs[i + k]]

\* the rule list once the loop has run over its first k rules
RulesAfter(rs, sched, k) ==
    [i \in 1..Len(rs) |-> IF i <= k THEN SerializeRule(rs[i], sched) ELSE rs[i]]

\* what lines 44-56 have written once the loop has run over the first k rules
TextAfter(rs, sched, k) ==
    SHELL_LINE \o Cat([i \in 1..k |-> RuleBlock(rs[i], sched)])

\* lines 58-59
Trailer(rs) == AllLine(rs) \o DELETE_ON_ERROR

\* no flush: nothing written is visible in the file yet
fh_flush_Nothing(written) == <<>>

\* line 60: fh.flush() makes everything written so far visible in the file
fh_flush(written) == written

\* write_to_filehandle(fh): a write may raise; then the loop has run over the
\* first k rules only and nothing was flushed. ok: no write raised.
write_to_filehandle(rs, sched, k, ok) ==
    [raised  |-> ~ok,
     rules   |-> RulesAfter(rs, sched, k),
     written |-> TextAfter(rs, sched, k) \o (IF ok THEN Trailer(rs) ELSE <<>>),
     flushed |-> IF ok THEN fh_flush(TextAfter(rs, sched, k) \o Trailer(rs)) ELSE <<>>]

(***************************************************************************)
(* DistributedMake: configuration and build_make_command.                  *)
(***************************************************************************)
\* Python values of the option fields: their truth value and their str()
PyFalse == [truthy |-> FALSE, str |-> <<"F", "a", "l", "s", "e">>]
PyTrue == [truthy |-> TRUE, str |-> <<"T", "r", "u", "e">>]
PyStr(s) == [truthy |-> s # <<>>, str |-> s]

\* lines 65-71: the defaults of the attributes
DefaultConfig ==
    [run |-> FALSE, keep_going |-> FALSE, jobs |-> 1, no_cleanup |-> FALSE,
     question |-> PyFalse, touch |-> PyFalse, debug |-> PyFalse]

\* "make", "-n", "-k", "all" and the heads of the formatted elements
MAKE == <<"m", "a", "k", "e">>
DASH_N == <<"-", "n">>
DASH_K == <<"-", "k">>
DASH_Q == <<"-", "q", " ">>
DASH_T == <<"-", "t", " ">>
DASH_D == <<"-", "d", " ">>
DASH_J == <<"-", "j", " ">>
DASH_F == <<"-", "f", " ">>
GOAL_ALL == <<"a", "l", "l">>

\* build_make_command with the test of run inverted
build_make_command_RunInverted(c, makefile_name) ==
    <<MAKE>>
    \o (IF c.run THEN <<DASH_N>> ELSE <<>>)
    \o (IF c.keep_going THEN <<DASH_K>> ELSE <<>>)
    \o (IF c.question.truthy THEN <<DASH_Q \o c.question.str>> ELSE <<>>)
    \o (IF c.touch.truthy THEN <<DASH_T \o c.touch.str>> ELSE <<>>)
    \o (IF c.debug.truthy THEN <<DASH_D \o c.debug.str>> ELSE <<>>)
    \o <<DASH_J \o IntToStr(c.jobs)>>
    \o <<DASH_F \o makefile_name>>
    \o <<GOAL_ALL>>

\* build_make_command(makefile_name): the list makecmd
build_make_command(c, makefile_name) ==
    <<MAKE>>
    \o (IF ~c.run THEN <<DASH_N>> ELSE <<>>)
    \o (IF c.keep_going THEN <<DASH_K>> ELSE <<>>)
    \o (IF c.question.truthy THEN <<DASH_Q \o c.question.str>> ELSE <<>>)
    \o (IF c.touch.truthy THEN <<DASH_T \o c.touch.str>> ELSE <<>>)
    \o (IF c.debug.truthy THEN <<DASH_D \o c.debug.str>> ELSE <<>>)
    \o <<DASH_J \o IntToStr(c.jobs)>>
    \o <<DASH_F \o makefile_name>>
    \o <<GOAL_ALL>>

(***************************************************************************)
(* DistributedMake.execute: the temporary file and the child process.      *)
(***************************************************************************)
\* the name of the temporary file of the n-th write: unique per execute call
TmpName(n) == <<"/", "t", "m", "p", "/", "t">> \o IntToStr(n)

\* delete=self.no_cleanup, the negation lost
delete_on_close_Inverted(c) == c.no_cleanup

\* line 93: delete=not self.no_cleanup
delete_on_close(c) == ~c.no_cleanup

\* leaving the with block closes the file, which removes it when delete is set
CloseTemp(d, f, delete) == IF delete THEN d \ {f} ELSE d

\* line 99: call() returns the exit status of the child
call_result(rc) == rc

\* exit statuses of make
ExitCodes == {0, 1, 2}

NoChild == [state |-> "none", rc |-> <<>>, cmd |-> <<>>, saw |-> <<>>, n |-> 0]

\* the record of the latest call: which operation, whether it raised, whether
\* it has finished, its temporary file and its return value
Call(op, raised, done, file, ret) ==
    [op |-> op, raised |-> raised, done |-> done, file |-> file, ret |-> ret]

(***************************************************************************)
(* Inputs of the calls.                                                    *)
(***************************************************************************)
AddInputs ==
    { [target |-> <<"o", "/", "a">>, deps |-> <<<<"i", "/", "a">>>>, cmds |-> <<<<"c", "p", " ", "i", "/", "a", " ", "o", "/", "a">>>>],
      [target |-> <<"o", "/", "a">>, deps |-> <<>>, cmds |-> <<>>],
      [target |-> <<"b">>, deps |-> <<<<"o", "/", "a">>, <<"c">>>>, cmds |-> <<<<"x">>, <<"y", " ", "z">>>>],
      [target |-> <<"/", "r", "/", "c">>, deps |-> <<>>, cmds |-> <<<<"t">>>>] }

OptionValues == {PyFalse, PyTrue, PyStr(<<"x">>)}

JobsValues == {1, 4, 8, 12}

Configs ==
    [run : BOOLEAN, keep_going : BOOLEAN, jobs : JobsValues, no_cleanup : BOOLEAN,
     question : OptionValues, touch : OptionValues, debug : OptionValues]

PathInputs == {TmpName(1), <<"m", "k">>}

(***************************************************************************)
(* Initial states.                                                         *)
(***************************************************************************)
InitCommon ==
    /\ rules = <<>>
    /\ _targets = {}
    /\ pc = "idle"
    /\ makefile_fp = 0
    /\ buffer = <<>>
    /\ flushed = <<>>
    /\ disk = {}
    /\ child = NoChild
    /\ makecmd = <<>>
    /\ last = Call("init", FALSE, TRUE, 0, <<>>)
    /\ given = <<>>
    /\ passes = <<>>
    /\ nwrites = 0

\* a fresh orchestrator: any scheduler, cleanup on or off, the other defaults
Init ==
    /\ InitCommon
    /\ scheduler \in SchedulingEngine
    /\ \E nc \in BOOLEAN : cfg = [DefaultConfig EXCEPT !.no_cleanup = nc]

\* a fresh orchestrator with any configuration
InitCmd ==
    /\ InitCommon
    /\ scheduler = "none"
    /\ cfg \in Configs

(***************************************************************************)
(* Actions.                                                                *)
(***************************************************************************)
\* DistributedMake.add / DMBuilder.add
Add(in) ==
    /\ pc = "idle"
    /\ in.target \in _targets \/ Len(rules) < MaxRules
    /\ LET r == DMBuilder_add(rules, _targets, in.target, in.deps, in.cmds)
       IN  /\ rules' = r.rules
           /\ _targets' = r.targets
           /\ last' = Call("add", r.raised, TRUE, 0, <<>>)
           /\ given' = IF r.raised THEN given ELSE Append(given, in)
           /\ passes' = IF r.raised THEN passes ELSE Append(passes, 0)
    /\ UNCHANGED <<scheduler, cfg, pc, makefile_fp, buffer, flushed, disk, child,
                   makecmd, nwrites>>

\* the number of loop iterations each rule has been through
PassesAfter(k) == [i \in 1..Len(passes) |-> IF i <= k THEN passes[i] + 1 ELSE passes[i]]

\* the effect of write_to_filehandle on the graph and on the writer
WriteGraph(k, ok) ==
    LET w == write_to_filehandle(rules, scheduler, k, ok)
    IN  /\ rules' = w.rules
        /\ buffer' = w.written
        /\ flushed' = w.flushed
        /\ passes' = PassesAfter(k)
        /\ nwrites' = nwrites + 1

\* DMBuilder.write_to_filehandle called on a writer of the caller: it runs to
\* its end, or a write raises after k rules
Serialize ==
    /\ pc = "idle"
    /\ nwrites < MaxWrites
    /\ \/ /\ WriteGraph(Len(rules), TRUE)
          /\ last' = Call("serialize", FALSE, TRUE, 0, <<>>)
       \/ /\ \E k \in 0..Len(rules) : WriteGraph(k, FALSE)
          /\ last' = Call("serialize", TRUE, TRUE, 0, <<>>)
    /\ UNCHANGED <<_targets, scheduler, cfg, pc, makefile_fp, disk, child, makecmd,
                   given>>

\* execute, line 93: the temporary file is created, or its creation raises
ExecuteOpen ==
    /\ pc = "idle"
    /\ nwrites < MaxWrites
    /\ child' = NoChild
    /\ makecmd' = <<>>
    /\ buffer' = <<>>
    /\ flushed' = <<>>
    /\ \/ /\ makefile_fp' = nwrites + 1
          /\ disk' = disk \cup {nwrites + 1}
          /\ pc' = "opened"
          /\ last' = Call("execute", FALSE, FALSE, nwrites + 1, <<>>)
       \/ /\ makefile_fp' = 0
          /\ disk' = disk
          /\ pc' = "idle"
          /\ last' = Call("execute", TRUE, TRUE, 0, <<>>)
    /\ UNCHANGED <<rules, _targets, scheduler, cfg, given, passes, nwrites>>

\* execute, line 94: the graph is written to the temporary file; when a write
\* raises, the with block closes the file on the way out
ExecuteWrite ==
    /\ pc = "opened"
    /\ \/ /\ WriteGraph(Len(rules), TRUE)
          /\ pc' = "written"
          /\ disk' = disk
          /\ last' = Call("execute", FALSE, FALSE, makefile_fp, <<>>)
       \/ /\ \E k \in 0..Len(rules) : WriteGraph(k, FALSE)
          /\ pc' = "idle"
          /\ disk' = CloseTemp(disk, makefile_fp, delete_on_close(cfg))
          /\ last' = Call("execute", TRUE, TRUE, makefile_fp, <<>>)
    /\ UNCHANGED <<_targets, scheduler, cfg, makefile_fp, child, makecmd, given>>

\* execute, lines 96-99: the command is built and the child is started, or
\* starting it raises and the with block closes the file on the way out
ExecuteCall ==
    /\ pc = "written"
    /\ makecmd' = build_make_command(cfg, TmpName(makefile_fp))
    /\ \/ /\ child' = [state |-> "running", rc |-> <<>>,
                       cmd |-> Join(makecmd', <<SP>>), saw |-> flushed,
                       n |-> child.n + 1]
          /\ pc' = "waiting"
          /\ disk' = disk
          /\ last' = Call("execute", FALSE, FALSE, makefile_fp, <<>>)
       \/ /\ child' = child
          /\ pc' = "idle"
          /\ disk' = CloseTemp(disk, makefile_fp, delete_on_close(cfg))
          /\ last' = Call("execute", TRUE, TRUE, makefile_fp, <<>>)
    /\ UNCHANGED <<rules, _targets, scheduler, cfg, makefile_fp, buffer, flushed,
                   given, passes, nwrites>>

\* the child process terminates with an exit status
ChildExit(rc) ==
    /\ pc = "waiting"
    /\ child.state = "running"
    /\ child' = [child EXCEPT !.state = "exited", !.rc = <<rc>>]
    /\ UNCHANGED <<rules, _targets, scheduler, cfg, pc, makefile_fp, buffer, flushed,
                   disk, makecmd, last, given, passes, nwrites>>

\* execute, lines 99-102: call() returns once the child has terminated, the
\* with block closes the file and the exit status is returned
ExecuteReturn ==
    /\ pc = "waiting"
    /\ child.state = "exited"
    /\ pc' = "idle"
    /\ disk' = CloseTemp(disk, makefile_fp, delete_on_close(cfg))
    /\ last' = Call("execute", FALSE, TRUE, makefile_fp, <<call_result(child.rc[1])>>)
    /\ child' = NoChild
    /\ UNCHANGED <<rules, _targets, scheduler, cfg, makefile_fp, buffer, flushed,
                   makecmd, given, passes, nwrites>>

\* build_make_command called on its own
BuildMakeCommand(path) ==
    /\ pc = "idle"
    /\ makecmd' = build_make_command(cfg, path)
    /\ last' = Call("build_make_command", FALSE, TRUE, 0, <<>>)
    /\ UNCHANGED <<rules, _targets, scheduler, cfg, pc, makefile_fp, buffer, flushed,
                   disk, child, given, passes, nwrites>>

Next ==
    \/ \E in \in AddInputs : Add(in)
    \/ Serialize
    \/ ExecuteOpen
    \/ ExecuteWrite
    \/ ExecuteCall
    \/ \E rc \in ExitCodes : ChildExit(rc)
    \/ ExecuteReturn

Spec == Init /\ [][Next]_vars

NextCmd == \E path \in PathInputs : BuildMakeCommand(path)

SpecCmd == InitCmd /\ [][NextCmd]_vars

(***************************************************************************)
(* Reading a makefile back, as make reads it: a line that starts with a    *)
(* tab is a recipe line of the rule above it, a line with := is a variable *)
(* assignment, a target that starts with a dot is a special target, and    *)
(* any other line with a colon is a rule header.                           *)
(***************************************************************************)
Contains(s, c) == \E i \in 1..Len(s) : s[i] = c

RECURSIVE DropEmpty(_)
DropEmpty(fields) ==
    IF fields = <<>> THEN <<>>
    ELSE IF Head(fields) = <<>> THEN DropEmpty(Tail(fields))
    ELSE <<Head(fields)>> \o DropEmpty(Tail(fields))

\* the words of a string: its fields between blanks
Words(s) == DropEmpty(SplitOn(s, SP))

IsAssignment(line) == \E i \in 1..(Len(line) - 1) : line[i] = ":" /\ line[i + 1] = "="

ParseHeader(line) ==
    LET k == CHOOSE i \in 1..Len(line) : line[i] = ":" /\ \A j \in 1..(i - 1) : line[j] # ":"
    IN  [target |-> SubSeq(line, 1, k - 1),
         deps |-> Words(SubSeq(line, k + 1, Len(line))),
         recipe |-> <<>>]

RECURSIVE ParseLines(_, _)
ParseLines(lines, acc) ==
    IF lines = <<>> THEN acc
    ELSE LET l == Head(lines)
         IN  IF l = <<>> \/ IsAssignment(l) THEN ParseLines(Tail(lines), acc)
             ELSE IF l[1] = TAB
                  THEN ParseLines(Tail(lines),
                          [acc EXCEPT ![Len(acc)].recipe = Append(@, SubSeq(l, 2, Len(l)))])
                  ELSE IF l[1] = "." \/ ~Contains(l, ":") THEN ParseLines(Tail(lines), acc)
                  ELSE ParseLines(Tail(lines), Append(acc, ParseHeader(l)))

\* the rule blocks of a makefile text, in the order of the text
ParseMakefile(text) == ParseLines(SplitOn(text, NL), <<>>)

\* a write_to_filehandle call has just succeeded and flushed holds its text
Serialized ==
    \/ last.op = "serialize" /\ ~last.raised
    \/ pc \in {"written", "waiting"}

\* the parent directory of each target of AddInputs, made absolute
ParentDir(target) ==
    IF target = <<"o", "/", "a">> THEN <<"/", "w", "/", "o">>
    ELSE IF target = <<"b">> THEN <<"/", "w">>
    ELSE <<"/", "r">>

\* the directory-guard command of a target
GuardOf(target) == GUARD_TEST \o ParentDir(target) \o GUARD_MKDIR \o ParentDir(target)

\* the cluster-dispatch token, or nothing
PrefixOf(sched) == IF sched = "slurm" THEN SRUN ELSE <<>>

RECURSIVE Times(_, _)
\* n copies of a string
Times(p, n) == IF n = 0 THEN <<>> ELSE p \o Times(p, n - 1)

\* the rule blocks of the text other than the last one
Blocks(text) == LET b == ParseMakefile(text) IN SubSeq(b, 1, Len(b) - 1)

\* the last rule block of the text
LastBlock(text) == LET b == ParseMakefile(text) IN b[Len(b)]

(***************************************************************************)
(* C1                                                                      *)
(***************************************************************************)
\* C1: add with a target that is already registered raises, whatever the
\* dependencies and the recipe, and leaves the rule list and the set of seen
\* targets as they were.
C1_DuplicateAddFails ==
    [][\A in \in AddInputs :
          (in.target \in _targets /\ Add(in)) =>
              /\ last'.op = "add" /\ last'.raised
              /\ rules' = rules
              /\ _targets' = _targets]_vars

\* a duplicate add, with other dependencies and recipe than the first, has failed
C1_Witness ==
    /\ last.op = "add" /\ last.raised
    /\ Len(rules) = 1
    /\ rules[1].target = <<"o", "/", "a">>
    /\ rules[1].deps # <<>>

(***************************************************************************)
(* C2                                                                      *)
(***************************************************************************)
\* C2: in every reachable state no two rules have the same target, and the
\* set of seen targets is exactly the set of the targets of the stored rules.
C2_UniqueTargets ==
    /\ \A i, j \in 1..Len(rules) : rules[i].target = rules[j].target => i = j
    /\ _targets = {rules[i].target : i \in 1..Len(rules)}

\* two rules are stored, a duplicate add has been refused and writes have run
C2_Witness ==
    /\ Len(rules) = 2
    /\ last.op = "add" /\ last.raised
    /\ nwrites >= 1

(***************************************************************************)
(* C3                                                                      *)
(***************************************************************************)
\* C3 as stated: the text of a successful serialize, read back, holds the
\* added targets with their dependency lists, and for each target a recipe
\* of the guard command followed by exactly the commands given at add.
C3_RoundTripAsStated ==
    Serialized =>
        LET b == Blocks(flushed)
        IN  /\ Len(b) = Len(given)
            /\ \A i \in 1..Len(b) :
                  /\ b[i].target = given[i].target
                  /\ b[i].deps = given[i].deps
                  /\ b[i].recipe = <<GuardOf(given[i].target)>> \o given[i].cmds

\* the recipe lines of a rule that has been through k loop iterations: one
\* guard line per iteration, then the given commands, every line carrying
\* the scheduler prefix once for each iteration that came after it was added
RecipeAfter(in, sched, k) ==
    [j \in 1..k |-> Times(PrefixOf(sched), j - 1) \o GuardOf(in.target)]
        \o [j \in 1..Len(in.cmds) |-> Times(PrefixOf(sched), k) \o in.cmds[j]]

\* C3 amended: the text of a successful serialize, read back, holds the added
\* targets with their dependency lists in order, and for each target the
\* given commands in order, each carrying the scheduler prefix, after the
\* guard command: n + 1 lines on the first serialize of the rule, and one
\* more guard line and one more prefix for every repeated serialize.
C3_RoundTrip ==
    Serialized =>
        LET b == Blocks(flushed)
        IN  /\ Len(b) = Len(given)
            /\ \A i \in 1..Len(b) :
                  /\ b[i].target = given[i].target
                  /\ b[i].deps = given[i].deps
                  /\ b[i].recipe = RecipeAfter(given[i], scheduler, passes[i])
                  /\ passes[i] = 1 => Len(b[i].recipe) = Len(given[i].cmds) + 1

\* the first serialize of two rules under slurm, one of them with two commands
C3_Witness ==
    /\ Serialized
    /\ scheduler = "slurm"
    /\ Len(rules) = 2
    /\ \A i \in 1..2 : passes[i] = 1
    /\ \E i \in 1..2 : Len(given[i].cmds) = 2 /\ Len(given[i].deps) = 2

(***************************************************************************)
(* C4                                                                      *)
(***************************************************************************)
\* C4: once a rule has been serialized, its recipe stays the guard command
\* followed by the given commands, each carrying the scheduler prefix once,
\* whatever serialize or execute calls follow.
C4_RecipeMutatedOnce ==
    \A i \in 1..Len(rules) :
        passes[i] >= 1 =>
            rules[i].recipe =
                <<GuardOf(given[i].target)>>
                    \o [j \in 1..Len(given[i].cmds) |-> PrefixOf(scheduler) \o given[i].cmds[j]]

(***************************************************************************)
(* C5                                                                      *)
(***************************************************************************)
\* the text of a jobs value
JobsText(n) == IF n = 1 THEN <<"1">> ELSE IF n = 4 THEN <<"4">> ELSE IF n = 8 THEN <<"8">> ELSE <<"1", "2">>

\* a flag with its value, when the option is set
FlagTokens(flag, v) == IF v = PyFalse THEN <<>> ELSE <<flag, v.str>>

\* the token sequence the claim gives for a configuration and a path
ExpectedTokens(c, path) ==
    <<<<"m", "a", "k", "e">>>>
    \o (IF c.run = FALSE THEN <<<<"-", "n">>>> ELSE <<>>)
    \o (IF c.keep_going = TRUE THEN <<<<"-", "k">>>> ELSE <<>>)
    \o FlagTokens(<<"-", "q">>, c.question)
    \o FlagTokens(<<"-", "t">>, c.touch)
    \o FlagTokens(<<"-", "d">>, c.debug)
    \o <<<<"-", "j">>, JobsText(c.jobs), <<"-", "f">>, path, <<"a", "l", "l">>>>

\* C5: build_make_command yields the tool name, -n iff run is false, -k iff
\* keep_going is true, -q, -t, -d with their values iff set, then -j with the
\* jobs value, -f with the path and the goal all; it changes neither the
\* configuration nor the graph.
C5_MakeCommand ==
    [][\A path \in PathInputs :
          BuildMakeCommand(path) =>
              /\ SplitOn(Join(makecmd', <<SP>>), SP) = ExpectedTokens(cfg, path)
              /\ cfg' = cfg
              /\ <<rules, _targets, scheduler>>' = <<rules, _targets, scheduler>>]_vars

\* {run: false, jobs: 4}: the dry-run flag, -j 4 and no -k, -q, -t, -d
C5_Witness ==
    /\ last.op = "build_make_command"
    /\ cfg = [DefaultConfig EXCEPT !.jobs = 4]
    /\ makecmd = <<<<"m", "a", "k", "e">>, <<"-", "n">>, <<"-", "j", " ", "4">>, <<"-", "f", " ", "/", "t", "m", "p", "/", "t", "1">>, <<"a", "l", "l">>>>

(***************************************************************************)
(* C6                                                                      *)
(***************************************************************************)
RECURSIVE StripPrefix(_)
\* a command without the cluster-dispatch tokens in front of it
StripPrefix(line) ==
    IF StartsWith(line, SRUN) THEN StripPrefix(SubSeq(line, Len(SRUN) + 1, Len(line)))
    ELSE line

\* C6: in the text of a successful serialize, under slurm every recipe
\* command carries the cluster-dispatch token and the guard command of each
\* rule does not; under none no recipe line carries it.
C6_ClusterPrefix ==
    Serialized =>
        LET b == Blocks(flushed)
        IN  \A i \in 1..Len(b) : \A j \in 1..Len(b[i].recipe) :
                LET line == b[i].recipe[j]
                IN  IF scheduler = "slurm"
                    THEN IF StripPrefix(line) = GuardOf(b[i].target)
                         THEN ~StartsWith(line, SRUN)
                         ELSE StartsWith(line, SRUN)
                    ELSE ~StartsWith(line, SRUN)

(***************************************************************************)
(* C7                                                                      *)
(***************************************************************************)
\* C7: once execute has finished, by returning or by raising, its temporary
\* file is gone when no_cleanup is unset and is still there when it is set;
\* and the file is there for as long as execute has not finished, so it is
\* never removed before the child has terminated.
C7_Cleanup ==
    /\ (last.op = "execute" /\ last.done /\ last.file # 0) =>
           (last.file \in disk <=> cfg.no_cleanup)
    /\ pc # "idle" => makefile_fp \in disk

\* execute has returned a failure status and its file has been removed
C7_Witness ==
    /\ last.op = "execute" /\ last.done /\ ~last.raised
    /\ last.ret = <<2>>
    /\ ~cfg.no_cleanup
    /\ last.file \notin disk

(***************************************************************************)
(* C8                                                                      *)
(***************************************************************************)
\* the whole build file of the rules as they stand after the write
WholeFile(rs) ==
    SHELL_LINE
    \o Cat([i \in 1..Len(rs) |-> HeaderLine(rs[i]) \o RecipeLines(rs[i].recipe)])
    \o AllLine(rs) \o DELETE_ON_ERROR

\* C8: a child is started only once the whole build file is written and
\* flushed, at most one per execute call; execute returns only after that one
\* child has terminated, and returns its exit status unchanged.
C8_OneChild ==
    [][/\ child'.n > child.n =>
             /\ child.n = 0
             /\ pc = "written"
             /\ flushed = WholeFile(rules)
             /\ child'.saw = WholeFile(rules)
       /\ ExecuteReturn =>
             /\ child.n = 1
             /\ child.state = "exited"
             /\ last'.ret = child.rc]_vars

\* execute has returned the exit status 1 of its child
C8_Witness ==
    /\ last.op = "execute" /\ last.done /\ ~last.raised
    /\ last.ret = <<1>>
    /\ Len(rules) >= 1

(***************************************************************************)
(* C9                                                                      *)
(***************************************************************************)
\* C9: the text of a successful serialize holds exactly one rule all, its
\* dependencies are the targets of the registered rules in insertion order,
\* each once, and it has no recipe lines; for the empty graph it is the only
\* rule and has no dependencies.
C9_AllRule ==
    Serialized =>
        LET b == ParseMakefile(flushed)
        IN  /\ Len(b) = Len(given) + 1
            /\ \A i \in 1..Len(b) : b[i].target = <<"a", "l", "l">> <=> i = Len(b)
            /\ b[Len(b)].deps = [i \in 1..Len(given) |-> given[i].target]
            /\ b[Len(b)].recipe = <<>>
            /\ rules = <<>> => b = <<[target |-> <<"a", "l", "l">>, deps |-> <<>>, recipe |-> <<>>]>>

\* a graph of two rules has been serialized
C9_Witness ==
    /\ Serialized
    /\ Len(rules) = 2
    /\ LastBlock(flushed).deps = <<<<"b">>, <<"o", "/", "a">>>>

(***************************************************************************)
(* C10                                                                     *)
(***************************************************************************)
\* the targets and dependency lists of the rules, in order
Structure(rs) == [i \in 1..Len(rs) |-> [target |-> rs[i].target, deps |-> rs[i].deps]]

\* C10: no step changes the scheduler; a step that is not a successful add
\* leaves the number and order of the rules, their targets and dependencies
\* and the set of seen targets as they were; an add only appends.
C10_Frame ==
    [][/\ scheduler' = scheduler
       /\ Len(rules') >= Len(rules)
       /\ SubSeq(Structure(rules'), 1, Len(rules)) = Structure(rules)
       /\ _targets \subseteq _targets'
       /\ (last'.op # "add" \/ last'.raised) =>
             /\ Structure(rules') = Structure(rules)
             /\ _targets' = _targets]_vars

\* a graph of two rules has been serialized twice
C10_Witness ==
    /\ Len(rules) = 2
    /\ \A i \in 1..2 : passes[i] = 2
    /\ last.op = "serialize" /\ ~last.raised

====
